---- MODULE Spec2Model ----
(***************************************************************************)
(* Model of torchquad's Monte Carlo integrator:                            *)
(*   src/torchquad/integration/base_integrator.py  (BaseIntegrator)        *)
(*   src/torchquad/integration/monte_carlo.py      (MonteCarlo)            *)
(*                                                                         *)
(* Conventions                                                             *)
(*   - An optional Python value is a sequence: <<>> is None, <<v>> is v.   *)
(*   - N is a record [type, num, den] (the number num/den and its Python   *)
(*     type), so that 1.5 and 2.0 can be told from the ints 1 and 2.       *)
(*   - A domain is a record [kind, rows]: kind "none" is None, "list" a    *)
(*     Python list of bound lists, and a backend name a native tensor of   *)
(*     that backend.  rows is the sequence of bound sequences.             *)
(*   - Uniform values in [0,1) are the fractions u/Q, u in 0..Q-1; sample  *)
(*     points and integrand values are carried in units of 1/Q.            *)
(***************************************************************************)
EXTENDS Integers, Sequences, FiniteSets, TLC

\* ------------------------------------------------------------------ bounds
\* Number of API calls (integrate, jit_integrate, invocations) in one run.
MaxCalls == 3
\* Resolution of the uniform draws: u/Q with u in 0..Q-1.
Q == 2

\* ------------------------------------------------------------------ values
None == <<>>
Some(v) == <<v>>
IsNone(o) == o = <<>>

IntN(n) == [type |-> "int", num |-> n, den |-> 1]
FloatN(n, d) == [type |-> "float", num |-> n, den |-> d]

ListDom(rows) == [kind |-> "list", rows |-> rows]
NoneDom == [kind |-> "none", rows |-> <<>>]
TensorDom(b, rows) == [kind |-> b, rows |-> rows]

Backends == {"torch", "tensorflow", "jax", "numpy"}

\* ------------------------------------------------- BaseIntegrator._check_inputs
\* base_integrator.py:56  `dim < 1`
DimInvalid(dim) == dim < 1

\* base_integrator.py:60  `dim != len(integration_domain)`
DimMismatch(dim, dom) == dim # Len(dom.rows)

NInvalid_NoTypeCheck(N) == N.num < N.den
\* base_integrator.py:66  `N < 1 or type(N) is not int`
NInvalid(N) == N.num < N.den \/ N.type # "int"

\* base_integrator.py:71-84  one iteration of the loop over the bounds:
\* the length test comes first, the order test reads bounds[0], bounds[1]
BoundsInvalid(bounds) ==
    IF Len(bounds) # 2 THEN TRUE ELSE bounds[1] > bounds[2]

\* base_integrator.py:70-84  the loop stops at the first offending pair
RECURSIVE FirstBadBounds(_, _)
FirstBadBounds(rows, i) ==
    IF i > Len(rows) THEN 0
    ELSE IF BoundsInvalid(rows[i]) THEN i
    ELSE FirstBadBounds(rows, i + 1)

\* base_integrator.py:43-84.  Both callers pass dim and N (N defaults to
\* 1000), so only integration_domain can be None here.  The result is "ok"
\* or the ValueError raised, in the order the code tests.
_check_inputs(dim, N, dom) ==
    IF DimInvalid(dim) THEN "ValueError: dim"
    ELSE IF dom.kind # "none" /\ DimMismatch(dim, dom) THEN "ValueError: dim mismatch"
    ELSE IF NInvalid(N) THEN "ValueError: N"
    ELSE IF dom.kind # "none" /\ FirstBadBounds(dom.rows, 1) # 0 THEN "ValueError: bound"
    ELSE "ok"

\* ------------------------------------------------ _setup_integration_domain
\* utils._setup_integration_domain and autoray.infer_backend (spec 4.1): no
\* domain gives [-1,1]^dim in the hinted backend, a list is converted to the
\* hinted backend, a native tensor keeps its own backend (the hint is ignored).
DefaultRows(dim) == [d \in 1..dim |-> <<-1, 1>>]

_setup_integration_domain(dim, dom, backend) ==
    IF dom.kind = "none" THEN [backend |-> backend, rows |-> DefaultRows(dim)]
    ELSE IF dom.kind = "list" THEN [backend |-> backend, rows |-> dom.rows]
    ELSE [backend |-> dom.kind, rows |-> dom.rows]

\* ------------------------------------------------------------------- RNG
\* The value at position pos of the stream of a generator with the given
\* seed, as the numerator u of u/Q (utils.RNG, spec 3 RandomGenerator).
Stream(seed, pos) == ((seed + 1) * (pos + 1) + (pos \div 2)) % Q

\* RNG(backend, seed): a generator at the start of its stream.
NewRNG(seed) == [seed |-> seed, pos |-> 0]

\* rng.uniform(size=[N]): the next N values of the stream; the generator
\* moves on by N.
Uniform(gen, N) ==
    [vals |-> [i \in 1..N |-> Stream(gen.seed, gen.pos + i - 1)],
     gen |-> [gen EXCEPT !.pos = @ + N]]

\* The generator the caller owns and may pass as rng.
CallerGen0 == [seed |-> 5, pos |-> 0]

\* States an internally created, unseeded generator may start from.
UnseededSeeds == {7, 8}

\* --------------------------------------------- MonteCarlo.calculate_sample_points
\* monte_carlo.py:180  `for d in range(dim)` (dimensions numbered from 1 here)
LoopOrder(dim) == [k \in 1..dim |-> k]

\* monte_carlo.py:172-175  rng given and seed given: ValueError
ConflictCheck(seed, rng) == ~IsNone(rng) /\ ~IsNone(seed)

PickGenerator_Continued(seed, rng, G, u) ==
    IF IsNone(rng)
    THEN IF IsNone(seed) THEN NewRNG(u) ELSE [seed |-> seed[1], pos |-> G.pos]
    ELSE G
PickGenerator_Reseeded(seed, rng, G, u) ==
    IF IsNone(rng) THEN NewRNG(IF IsNone(seed) THEN u ELSE seed[1])
    ELSE NewRNG(G.seed)
\* monte_carlo.py:172-173  rng None: a new RNG from the seed (unseeded: some
\* state u); otherwise the caller's generator G in its current state
PickGenerator(seed, rng, G, u) ==
    IF IsNone(rng) THEN NewRNG(IF IsNone(seed) THEN u ELSE seed[1])
    ELSE G

RECURSIVE SampleLoop_NoOffset(_, _, _, _, _)
SampleLoop_NoOffset(order, k, N, rows, st) ==
    IF k > Len(order) THEN st
    ELSE LET d == order[k]
             scale == rows[d][2] - rows[d][1]
             Body(dr) ==
                 SampleLoop_NoOffset(order, k + 1, N, rows,
                    [gen |-> dr.gen,
                     cols |-> [st.cols EXCEPT ![d] = [i \in 1..N |-> dr.vals[i] * scale]],
                     draws |-> Append(st.draws,
                                      [d |-> d, start |-> st.gen.pos, n |-> N])])
         IN Body(Uniform(st.gen, N))

\* monte_carlo.py:180-185  the loop body for the k-th dimension of order:
\* one uniform draw of N values, scaled and shifted (in units of 1/Q)
RECURSIVE SampleLoop(_, _, _, _, _)
SampleLoop(order, k, N, rows, st) ==
    IF k > Len(order) THEN st
    ELSE LET d == order[k]
             scale == rows[d][2] - rows[d][1]
             offset == rows[d][1]
             Body(dr) ==
                 SampleLoop(order, k + 1, N, rows,
                    [gen |-> dr.gen,
                     cols |-> [st.cols EXCEPT
                                 ![d] = [i \in 1..N |-> dr.vals[i] * scale + offset * Q]],
                     draws |-> Append(st.draws,
                                      [d |-> d, start |-> st.gen.pos, n |-> N])])
         IN Body(Uniform(st.gen, N))

calculate_sample_points_LateCheck(N, rows, seed, rng, G, u) ==
    LET dim == Len(rows)
        Stack(st) ==
            [err |-> IF ConflictCheck(seed, rng) THEN "ValueError: seed and rng" ELSE "ok",
             points |-> [i \in 1..N |-> [d \in 1..dim |-> st.cols[d][i]]],
             gen |-> st.gen,
             draws |-> st.draws]
    IN Stack(SampleLoop(LoopOrder(dim), 1, N, rows,
                [gen |-> PickGenerator(seed, rng, G, u),
                 cols |-> [d \in 1..dim |-> <<>>],
                 draws |-> <<>>]))
\* monte_carlo.py:160-186.  G is the caller's generator, u the state of an
\* unseeded internal one.  err is "ok" or the ValueError; points is the
\* stacked N x dim table (line 186); gen the generator after the draws;
\* draws the uniform calls made, in order.
calculate_sample_points(N, rows, seed, rng, G, u) ==
    IF ConflictCheck(seed, rng)
    THEN [err |-> "ValueError: seed and rng", points |-> <<>>,
          gen |-> G, draws |-> <<>>]
    ELSE LET dim == Len(rows)
             Stack(st) ==
                 [err |-> "ok",
                  points |-> [i \in 1..N |-> [d \in 1..dim |-> st.cols[d][i]]],
                  gen |-> st.gen,
                  draws |-> st.draws]
         IN Stack(SampleLoop(LoopOrder(dim), 1, N, rows,
                     [gen |-> PickGenerator(seed, rng, G, u),
                      cols |-> [d \in 1..dim |-> <<>>],
                      draws |-> <<>>]))

\* ------------------------------------------------------ evaluate_integrand
\* The integrands a caller passes: the constant 1 and x[:, 0].
Integrands == {"one", "x0"}

\* Further integrands: the constant 2, and two whose output has not the
\* length of the batch: x[:-1, 0], and x[:, 0] with one more value.
OtherIntegrands == {"two", "short", "long"}

\* One batched call of the integrand on the N x dim table (values in units
\* of 1/Q).
ApplyFn(fn, points) ==
    LET n == Len(points)
        len == IF fn = "short" THEN n - 1 ELSE IF fn = "long" THEN n + 1 ELSE n
    IN [i \in 1..len |->
          IF fn = "one" THEN Q
          ELSE IF fn = "two" THEN 2 * Q
          ELSE IF i <= n THEN points[i][1] ELSE 0]

\* evaluate_integrand(fn, points) (spec 4.3): the function values and the
\* evaluation count, old count + N; the count is returned, not stored.
evaluate_integrand(fn, points, count) ==
    [values |-> ApplyFn(fn, points), count |-> count + Len(points)]

\* -------------------------------------------------- MonteCarlo.calculate_result
RECURSIVE Prod(_, _)
Prod(s, i) == IF i > Len(s) THEN 1 ELSE s[i] * Prod(s, i + 1)

RECURSIVE Sum(_, _)
Sum(s, i) == IF i > Len(s) THEN 0 ELSE s[i] + Sum(s, i + 1)

Abs(x) == IF x < 0 THEN -x ELSE x

RECURSIVE Gcd(_, _)
Gcd(a, b) == IF b = 0 THEN a ELSE Gcd(b, a % b)

\* A fraction in lowest terms with a positive denominator.
Frac(num, den) ==
    LET g == Gcd(Abs(num), den)
    IN IF g = 0 THEN [num |-> 0, den |-> 1]
       ELSE [num |-> num \div g, den |-> den \div g]

\* The value of a float division by 0: no exception is raised for tensors.
NaN == [num |-> 0, den |-> 0]

calculate_result_Mean(values, rows) ==
    IF Len(values) = 0 THEN NaN ELSE Frac(Sum(values, 1), Len(values) * Q)
\* monte_carlo.py:199-204  volume * sum(values) / N with N the length of the
\* values (line 203), whatever that length is; the values are in units of
\* 1/Q.  (The dtype cast of lines 206-210 changes the representation, not
\* the number.)
calculate_result(values, rows) ==
    LET scales == [d \in 1..Len(rows) |-> rows[d][2] - rows[d][1]]
        volume == Prod(scales, 1)
        N == Len(values)
    IN IF N = 0 THEN NaN ELSE Frac(volume * Sum(values, 1), N * Q)

\* =================================================================== state
VARIABLES
    nr_of_fevals,  \* self._nr_of_fevals (base_integrator.py:26)
    attrs,         \* self._tf_jit_* / self._jax_jit_*: per backend, None or the wrapper pair
    callables,     \* the closures jit_integrate has returned, in order
    rngG,          \* the caller-owned generator
    fnCalls,       \* how often an integrand has been invoked
    outcome,       \* what the last call did: returned or raised
    calls,         \* number of calls made so far
    hist,          \* history: draws made, wrappers and artifacts built, ...
    thr,           \* threads inside lazy_compiled_integrate (concurrent use)
    chk,           \* inputs and result of a standalone _check_inputs call
    det,           \* a reference call and the results its repetitions returned
    pipe           \* inputs and stage outputs of one run of the pipeline

vars == <<nr_of_fevals, attrs, callables, rngG, fnCalls, outcome, calls, hist, thr, chk,
          det, pipe>>

JitBackends == {"tensorflow", "jax"}
Threads == {1, 2}

NoOutcome ==
    [op |-> "none", status |-> "ok", n |-> 0, valid |-> TRUE, conflict |-> FALSE,
     backend |-> "none", cid |-> 0, built |-> FALSE, result |-> [num |-> 0, den |-> 1]]

IdleThread ==
    [pc |-> "idle", cid |-> 0, fn |-> "one", rows |-> <<>>,
     art |-> None, callee |-> None, status |-> "ok",
     result |-> [num |-> 0, den |-> 1]]

NoCheck == [dim |-> 1, N |-> IntN(1), dom |-> NoneDom, res |-> "none"]

NoRef == [fn |-> "one", args |-> <<1, IntN(1), NoneDom, "torch">>, seed |-> None,
          inst |-> 1, direct |-> {}, directOn |-> <<>>, jit |-> {}, jitBuilt |-> <<>>]

NoPipe == [fn |-> "one", N |-> 1, rows |-> <<>>, seed |-> None, rng |-> None,
           stage |-> "init", points |-> <<>>, values |-> <<>>, result |-> NaN]

\* MonteCarlo() (monte_carlo.py:12-13, base_integrator.py:25-27): counter 0,
\* no cached wrappers; no closure exists yet.
InitObject ==
    /\ nr_of_fevals = 0
    /\ attrs = [b \in JitBackends |-> None]
    /\ callables = <<>>
    /\ rngG = CallerGen0
    /\ fnCalls = 0
    /\ outcome = NoOutcome
    /\ calls = 0
    /\ hist = [sumN |-> 0, integrates |-> 0, samplings |-> 0, drawCount |-> 0,
               log |-> <<>>, wrapBuilds |-> 0, artifacts |-> 0]
    /\ thr = [t \in Threads |-> IdleThread]

Init == InitObject /\ chk = NoCheck /\ det = NoRef /\ pipe = NoPipe

\* ------------------------------------------------------- pipeline stages
\* The part of the state the stages act on, threaded through one call.
Env == [G |-> rngG, fnCalls |-> fnCalls, samplings |-> hist.samplings,
        drawCount |-> hist.drawCount, log |-> hist.log]

\* One execution of calculate_sample_points in environment e.  A
\* caller-supplied generator is left in the state the draws put it in, and
\* every draw made counts, whether the run returns or raises.
SampleStage(e, N, rows, seed, rng, u) ==
    LET Tagged(r) == [k \in 1..Len(r.draws) |->
                       [s |-> e.samplings + 1, dim |-> Len(rows), N |-> N,
                        d |-> r.draws[k].d, start |-> r.draws[k].start,
                        n |-> r.draws[k].n]]
        Body(r) ==
            [err |-> r.err, points |-> r.points,
             env |-> [e EXCEPT !.G = IF IsNone(rng) THEN e.G ELSE r.gen,
                               !.samplings = IF r.err = "ok" THEN @ + 1 ELSE @,
                               !.drawCount = @ + Len(r.draws) * N,
                               !.log = IF IsNone(rng) THEN @ ELSE @ \o Tagged(r)]]
    IN Body(calculate_sample_points(N, rows, seed, rng, e.G, u))

EvalStage_PerPoint(e, fn, points, count) ==
    LET Body(r) == [values |-> r.values, count |-> r.count,
                    env |-> [e EXCEPT !.fnCalls = @ + Len(points)]]
    IN Body(evaluate_integrand(fn, points, count))
\* One execution of evaluate_integrand in environment e.
EvalStage(e, fn, points, count) ==
    LET Body(r) == [values |-> r.values, count |-> r.count,
                    env |-> [e EXCEPT !.fnCalls = @ + 1]]
    IN Body(evaluate_integrand(fn, points, count))

SetEnv(e) ==
    /\ rngG' = e.G
    /\ fnCalls' = e.fnCalls
    /\ hist' = [hist EXCEPT !.samplings = e.samplings, !.drawCount = e.drawCount,
                            !.log = e.log]

\* ------------------------------------------------------ MonteCarlo.integrate
IntegrateCounter_Discard(old, returned) == old
IntegrateCounter_CountCalls(old, returned) == old + 1
\* monte_carlo.py:52  `function_values, self._nr_of_fevals = ...`: the
\* returned count is stored in the counter
IntegrateCounter(old, returned) == returned

\* monte_carlo.py:42-53
Integrate(fn, dim, N, dom, seed, rng, backend, u) ==
    LET v == _check_inputs(dim, N, dom)
        base == [NoOutcome EXCEPT !.op = "integrate",
                                  !.valid = (v = "ok"),
                                  !.conflict = ConflictCheck(seed, rng)]
    IN
    /\ calls' = calls + 1
    /\ UNCHANGED <<attrs, callables, thr, chk>>
    /\ IF v # "ok"
       THEN /\ outcome' = [base EXCEPT !.status = v]
            /\ UNCHANGED <<nr_of_fevals, rngG, fnCalls, hist>>
       ELSE LET dn == _setup_integration_domain(dim, dom, backend)
            IN \E s \in {SampleStage(Env, N.num, dn.rows, seed, rng, u)} :
               IF s.err # "ok"
               THEN /\ outcome' = [base EXCEPT !.status = s.err, !.backend = dn.backend]
                    /\ SetEnv(s.env)
                    /\ UNCHANGED nr_of_fevals
               ELSE \E ev \in {EvalStage(s.env, fn, s.points, nr_of_fevals)} :
                       /\ nr_of_fevals' = IntegrateCounter(nr_of_fevals, ev.count)
                       /\ rngG' = ev.env.G
                       /\ fnCalls' = ev.env.fnCalls
                       /\ hist' = [hist EXCEPT !.samplings = ev.env.samplings,
                                               !.drawCount = ev.env.drawCount,
                                               !.log = ev.env.log,
                                               !.sumN = @ + N.num,
                                               !.integrates = @ + 1]
                       /\ outcome' = [base EXCEPT !.n = N.num, !.backend = dn.backend,
                                        !.result = calculate_result(ev.values, dn.rows)]

\* ---------------------------------------------------- MonteCarlo.jit_integrate
CompileBranch_TraceAnything(backend) ==
    IF backend \in JitBackends THEN "wrap" ELSE "trace"
\* monte_carlo.py:77, 114, 158  the branch taken for the resolved backend
CompileBranch(backend) ==
    IF backend \in JitBackends THEN "wrap"
    ELSE IF backend = "torch" THEN "trace"
    ELSE "unsupported"

NeedsWrappers_Always(cached) == TRUE
\* monte_carlo.py:81, 93  `if not hasattr(self, "_<backend>_jit_calculate_sample_points")`
NeedsWrappers(cached) == IsNone(cached)

Closure_Eager(kind, backend, dim, N, rows, seed, rng, wrap) ==
    [kind |-> kind, backend |-> backend, dim |-> dim, N |-> N, rows |-> rows,
     seed |-> seed, rng |-> rng, wrap |-> wrap,
     slot |-> IF kind = "lazy" THEN Some([id |-> 0, step1 |-> TRUE, step3 |-> TRUE])
              ELSE None,
     builds |-> 0, invocations |-> 0]
\* The closure a jit_integrate call returns: compiled_integrate
\* (monte_carlo.py:105-112) with the wrapper pair it captured, or
\* lazy_compiled_integrate (149-156) with its own one-element list
\* compiled_func, initially [None].  builds and invocations count what has
\* happened to it.
Closure(kind, backend, dim, N, rows, seed, rng, wrap) ==
    [kind |-> kind, backend |-> backend, dim |-> dim, N |-> N, rows |-> rows,
     seed |-> seed, rng |-> rng, wrap |-> wrap, slot |-> None,
     builds |-> 0, invocations |-> 0]

\* monte_carlo.py:74-158
JitIntegrate(dim, N, dom, seed, rng, backend) ==
    LET v == _check_inputs(dim, N, dom)
        base == [NoOutcome EXCEPT !.op = "jit_integrate",
                                  !.valid = (v = "ok"),
                                  !.conflict = ConflictCheck(seed, rng)]
    IN
    /\ calls' = calls + 1
    /\ UNCHANGED <<nr_of_fevals, rngG, fnCalls, thr, chk>>
    /\ IF v # "ok"
       THEN /\ outcome' = [base EXCEPT !.status = v]
            /\ UNCHANGED <<attrs, callables, hist>>
       ELSE LET dn == _setup_integration_domain(dim, dom, backend)
                b == dn.backend
                branch == CompileBranch(b)
            IN IF branch = "wrap"
               THEN LET build == NeedsWrappers(attrs[b])
                        pair == IF build THEN Some(hist.wrapBuilds + 1) ELSE attrs[b]
                    IN /\ attrs' = [attrs EXCEPT ![b] = pair]
                       /\ hist' = [hist EXCEPT !.wrapBuilds =
                                                  IF build THEN @ + 1 ELSE @]
                       /\ callables' = Append(callables,
                             Closure("compiled", b, dim, N.num, dn.rows, seed, rng, pair))
                       /\ outcome' = [base EXCEPT !.backend = b, !.n = N.num,
                                                  !.cid = Len(callables) + 1]
               ELSE IF branch = "trace"
               THEN /\ callables' = Append(callables,
                             Closure("lazy", b, dim, N.num, dn.rows, seed, rng, None))
                    /\ outcome' = [base EXCEPT !.backend = b, !.n = N.num,
                                               !.cid = Len(callables) + 1]
                    /\ UNCHANGED <<attrs, hist>>
               ELSE /\ outcome' = [base EXCEPT !.backend = b,
                                      !.status = "ValueError: Compilation not implemented"]
                    /\ UNCHANGED <<attrs, callables, hist>>

\* ----------------------------------------------- the closures jit_integrate returns
CompiledCounter_Stored(old, returned) == returned
\* monte_carlo.py:109, 132, 142  `function_values, _ = self.evaluate_integrand(...)`:
\* the returned count is dropped and the counter keeps its value
CompiledCounter(old, returned) == old

\* The three stages in a row, as both compiled_integrate closures run them
\* (monte_carlo.py:105-110 and 140-143); count is the count
\* evaluate_integrand returned (count as passed if it was not reached).
RunStages(e, N, rows, seed, rng, fn, u, count) ==
    LET Reduce(ev) == [err |-> "ok", env |-> ev.env, count |-> ev.count,
                       result |-> calculate_result(ev.values, rows)]
        Body(s) == IF s.err # "ok"
                   THEN [err |-> s.err, env |-> s.env, count |-> count,
                         result |-> NoOutcome.result]
                   ELSE Reduce(EvalStage(s.env, fn, s.points, count))
    IN Body(SampleStage(e, N, rows, seed, rng, u))

compiled_integrate_Unseeded(e, c, fn, rows, u, count) ==
    RunStages(e, c.N, rows, None, c.rng, fn, u, count)
\* monte_carlo.py:105-110  compiled_integrate of the tensorflow/jax branch
\* on closure c: the wrapped stages compute what the stages compute.
compiled_integrate(e, c, fn, rows, u, count) ==
    RunStages(e, c.N, rows, c.seed, c.rng, fn, u, count)

\* monte_carlo.py:120-128  step1 is traced by running it once on the domain
\* jit_integrate was given.  The artifact under construction has step1 only.
TraceStep1(e, c, u) ==
    LET Body(s) == [err |-> s.err, env |-> s.env,
                    art |-> [id |-> 0, step1 |-> TRUE, step3 |-> FALSE]]
    IN Body(SampleStage(e, c.N, c.rows, c.seed, c.rng, u))

\* monte_carlo.py:131-134  the example input of the third step: step1 runs
\* again and the example integrand is evaluated on its points.
ExampleRun(e, c, fn, u, count) ==
    LET Eval(s, ev) == [err |-> "ok", env |-> ev.env, count |-> ev.count]
        Body(s) ==
            IF s.err # "ok" THEN [err |-> s.err, env |-> s.env, count |-> count]
            ELSE Eval(s, EvalStage(s.env, fn, s.points, count))
    IN Body(SampleStage(e, c.N, c.rows, c.seed, c.rng, u))

TraceStep3_Skipped(art, id) == [art EXCEPT !.id = id]
\* monte_carlo.py:137-145  step3 is traced and do_compile returns the
\* finished compiled_integrate, the id-th artifact built
TraceStep3(art, id) == [art EXCEPT !.id = id, !.step3 = TRUE]

\* monte_carlo.py:116-145  do_compile(example_integrand) as a whole; us are
\* the states of the unseeded generators of its two sampling runs; count is
\* the counter before and, in the result, after.
do_compile(e, c, fn, us, count, id) ==
    LET Finish(t1, ex) ==
            [err |-> ex.err, env |-> ex.env, count |-> CompiledCounter(count, ex.count),
             art |-> TraceStep3(t1.art, id)]
        Body(t1) ==
            IF t1.err # "ok"
            THEN [err |-> t1.err, env |-> t1.env, count |-> count, art |-> t1.art]
            ELSE Finish(t1, ExampleRun(t1.env, c, fn, us[2], count))
    IN Body(TraceStep1(e, c, us[1]))

MustCompile_Always(slot) == TRUE
\* monte_carlo.py:152  `if compiled_func[0] is None`
MustCompile(slot) == IsNone(slot)

\* monte_carlo.py:140-143  the traced compiled_integrate of artifact art
traced_integrate(e, c, art, fn, rows, u, count) ==
    RunStages(e, c.N, rows, c.seed, c.rng, fn, u, count)

\* Invocation of closure number i with (fn, integration_domain): rows is the
\* domain tensor passed; us are the states of the unseeded generators of the
\* sampling runs the invocation makes.
Invoke(i, fn, rows, us) ==
    LET c == callables[i]
        base == [NoOutcome EXCEPT !.op = "invoke", !.cid = i, !.n = c.N,
                                  !.backend = c.backend,
                                  !.conflict = ConflictCheck(c.seed, c.rng)]
    IN
    /\ calls' = calls + 1
    /\ UNCHANGED <<attrs, thr, chk>>
    /\ IF c.kind = "compiled"
       THEN \* monte_carlo.py:105-110
            \E r \in {compiled_integrate(Env, c, fn, rows, us[3], nr_of_fevals)} :
               /\ SetEnv(r.env)
               /\ nr_of_fevals' = CompiledCounter(nr_of_fevals, r.count)
               /\ callables' = [callables EXCEPT ![i].invocations = @ + 1]
               /\ outcome' = [base EXCEPT !.status = r.err, !.result = r.result]
       ELSE \* monte_carlo.py:151-154
            LET build == MustCompile(c.slot)
            IN \E dc \in {IF build
                          THEN do_compile(Env, c, fn, us, nr_of_fevals, hist.artifacts + 1)
                          ELSE [err |-> "ok", env |-> Env, count |-> nr_of_fevals,
                                art |-> c.slot[1]]} :
               IF dc.err # "ok"
               THEN /\ SetEnv(dc.env)
                    /\ nr_of_fevals' = dc.count
                    /\ callables' = [callables EXCEPT ![i].invocations = @ + 1]
                    /\ outcome' = [base EXCEPT !.status = dc.err]
               ELSE \E r \in {traced_integrate(dc.env, c, dc.art, fn, rows, us[3],
                                                dc.count)} :
                       /\ rngG' = r.env.G
                       /\ fnCalls' = r.env.fnCalls
                       /\ nr_of_fevals' = CompiledCounter(dc.count, r.count)
                       /\ hist' = [hist EXCEPT !.samplings = r.env.samplings,
                                               !.drawCount = r.env.drawCount,
                                               !.log = r.env.log,
                                               !.artifacts = IF build THEN @ + 1 ELSE @]
                       /\ callables' = [callables EXCEPT
                                          ![i].invocations = @ + 1,
                                          ![i].slot = Some(dc.art),
                                          ![i].builds = IF build THEN @ + 1 ELSE @]
                       /\ outcome' = [base EXCEPT !.status = r.err, !.result = r.result,
                                                  !.built = build]

\* ------------------------------------------------------------- call inputs
L01 == ListDom(<< <<0, 1>> >>)

\* (dim, N, domain, backend) a caller passes and _check_inputs accepts: the
\* backend comes from the hint or from a native tensor.
ValidArgs ==
    { <<1, IntN(1), L01, "torch">>,
      <<2, IntN(2), ListDom(<< <<0, 2>>, <<1, 1>> >>), "torch">>,
      <<1, IntN(2), NoneDom, "tensorflow">>,
      <<1, IntN(1), TensorDom("jax", << <<0, 1>> >>), "torch">>,
      <<1, IntN(1), L01, "numpy">> }

\* One (dim, N, domain, backend) for each way _check_inputs rejects.
InvalidArgs ==
    { <<2, IntN(1), L01, "torch">>,
      <<1, FloatN(3, 2), L01, "tensorflow">>,
      <<1, IntN(1), ListDom(<< <<2, 1>> >>), "jax">>,
      <<0, IntN(1), NoneDom, "torch">> }

Seeds == {None, Some(1)}
Rngs == {None, Some("g")}

\* (seed, rng) pairs passed along with arguments: all four with valid
\* arguments; with invalid ones the two that hand over the caller's generator.
SeedRng(a) ==
    IF a \in ValidArgs THEN Seeds \X Rngs ELSE Seeds \X {Some("g")}

\* The states an unseeded internal generator can start from matter only when
\* one is created.
UChoices(seed, rng) ==
    IF IsNone(seed) /\ IsNone(rng) THEN UnseededSeeds ELSE {0}

\* integrate is called on lists and on no domain.
DirectArgs == {a \in ValidArgs : a[3].kind \in {"list", "none"}} \cup InvalidArgs

IntegrateCall ==
    /\ calls < MaxCalls
    /\ UNCHANGED <<det, pipe>>
    /\ \E a \in DirectArgs, fn \in Integrands :
        \E sr \in SeedRng(a) :
            \E u \in UChoices(sr[1], sr[2]) :
                Integrate(fn, a[1], a[2], a[3], sr[1], sr[2], a[4], u)

JitIntegrateCall ==
    /\ calls < MaxCalls
    /\ UNCHANGED <<det, pipe>>
    /\ \E a \in ValidArgs \cup InvalidArgs :
        \E sr \in SeedRng(a) :
            JitIntegrate(a[1], a[2], a[3], sr[1], sr[2], a[4])

\* Domain tensors passed to a closure.  A traced closure is given a tensor of
\* the shape it was traced with (anything else is outside its contract).
InvokeRows == { << <<0, 1>> >>, << <<0, 2>>, <<1, 1>> >> }

\* The unseeded generators of an invocation: up to three sampling runs when
\* the closure compiles first, one otherwise.
UTuples(c) ==
    IF ~(IsNone(c.seed) /\ IsNone(c.rng)) THEN { <<0, 0, 0>> }
    ELSE IF c.kind = "lazy" /\ IsNone(c.slot)
         THEN { <<a, b, d>> : a \in UnseededSeeds, b \in UnseededSeeds, d \in UnseededSeeds }
         ELSE { <<0, 0, d>> : d \in UnseededSeeds }

InvokeCall ==
    /\ calls < MaxCalls
    /\ UNCHANGED <<det, pipe>>
    /\ \E i \in 1..Len(callables), fn \in Integrands :
        \E rows \in {r \in InvokeRows : Len(r) = callables[i].dim} :
            \E us \in UTuples(callables[i]) :
                Invoke(i, fn, rows, us)

Next ==
    \/ IntegrateCall
    \/ JitIntegrateCall
    \/ InvokeCall

Spec == Init /\ [][Next]_vars

\* ------------------------------------------- compilation scenarios, in depth
\* jit_integrate and invocations only, on few arguments, so that several
\* closures of one instance can each be invoked more than once.
MaxCompileCalls == 4

CompileArgs ==
    { <<1, IntN(1), L01, "torch">>,
      <<1, IntN(1), L01, "tensorflow">>,
      <<1, IntN(1), L01, "jax">> }

CompileSeedRng == { <<Some(1), None>>, <<None, Some("g")>>, <<Some(1), Some("g")>> }

CompileJit ==
    /\ calls < MaxCompileCalls
    /\ UNCHANGED <<det, pipe>>
    /\ \E a \in CompileArgs, sr \in CompileSeedRng :
        JitIntegrate(a[1], a[2], a[3], sr[1], sr[2], a[4])

CompileInvoke ==
    /\ calls < MaxCompileCalls
    /\ UNCHANGED <<det, pipe>>
    /\ \E i \in 1..Len(callables), fn \in Integrands :
        \E rows \in {r \in InvokeRows : Len(r) = callables[i].dim} :
            \E us \in UTuples(callables[i]) :
                Invoke(i, fn, rows, us)

NextCompile ==
    \/ CompileJit
    \/ CompileInvoke

SpecCompile == Init /\ [][NextCompile]_vars

\* --------------------------------------------- _check_inputs on its own
\* Longest domain and largest dim tried.
MaxDim == 3

CheckPairs == { <<0, 1>>, <<1, 1>>, <<2, 1>>, <<0>>, <<0, 1, 2>> }

CheckRows == UNION { [1..k -> CheckPairs] : k \in 1..MaxDim }

CheckDoms == {NoneDom} \cup { ListDom(r) : r \in CheckRows }

CheckNs == { IntN(-5), IntN(0), IntN(1), IntN(2),
             FloatN(3, 2), FloatN(1, 2), FloatN(2, 1) }

InitCheck ==
    /\ InitObject
    /\ chk \in [dim : -1..MaxDim, N : CheckNs, dom : CheckDoms, res : {"none"}]
    /\ det = NoRef
    /\ pipe = NoPipe

\* self._check_inputs(dim=dim, N=N, integration_domain=integration_domain)
\* (monte_carlo.py:42, 74): res is "ok" or the error raised.
CheckInputs ==
    /\ chk.res = "none"
    /\ chk' = [chk EXCEPT !.res = _check_inputs(chk.dim, chk.N, chk.dom)]
    /\ UNCHANGED <<nr_of_fevals, attrs, callables, rngG, fnCalls, outcome, calls,
                   hist, thr, det, pipe>>

NextCheck == CheckInputs

SpecCheck == InitCheck /\ [][NextCheck]_vars

\* ------------------------------ lazy_compiled_integrate, statement by statement
\* Two threads invoke closures of the torch branch; a thread can be
\* preempted between any two of the statements below.
ConcArgs == { <<1, IntN(1), L01, "torch">> }

ConcSeedRng == { <<Some(1), None>>, <<None, Some("g")>>, <<Some(1), Some("g")>> }

ConcJit ==
    /\ calls < MaxCalls
    /\ UNCHANGED <<det, pipe>>
    /\ \E a \in ConcArgs, sr \in ConcSeedRng :
        JitIntegrate(a[1], a[2], a[3], sr[1], sr[2], a[4])

USingle(c) == IF IsNone(c.seed) /\ IsNone(c.rng) THEN UnseededSeeds ELSE {0}

OthersUnchanged == UNCHANGED <<attrs, chk, det, pipe>>

\* The call lazy_compiled_integrate(fn, integration_domain) is entered.
T_Start(t, i, fn, rows) ==
    /\ calls < MaxCalls
    /\ thr[t].pc \in {"idle", "done", "raised"}
    /\ callables[i].kind = "lazy"
    /\ calls' = calls + 1
    /\ thr' = [thr EXCEPT ![t] = [IdleThread EXCEPT !.pc = "check", !.cid = i,
                                                   !.fn = fn, !.rows = rows]]
    /\ callables' = [callables EXCEPT ![i].invocations = @ + 1]
    /\ UNCHANGED <<nr_of_fevals, rngG, fnCalls, hist, outcome>>
    /\ OthersUnchanged

\* monte_carlo.py:152  the test of compiled_func[0]
T_Check(t) ==
    /\ thr[t].pc = "check"
    /\ thr' = [thr EXCEPT ![t].pc =
                 IF MustCompile(callables[thr[t].cid].slot) THEN "trace1" ELSE "load"]
    /\ UNCHANGED <<nr_of_fevals, callables, rngG, fnCalls, hist, outcome, calls>>
    /\ OthersUnchanged

\* monte_carlo.py:128  inside do_compile: step1 is traced; the ValueError of
\* calculate_sample_points leaves do_compile and the call
T_Trace1(t, u) ==
    /\ thr[t].pc = "trace1"
    /\ \E r \in {TraceStep1(Env, callables[thr[t].cid], u)} :
        /\ SetEnv(r.env)
        /\ IF r.err # "ok"
           THEN /\ thr' = [thr EXCEPT ![t].pc = "raised", ![t].status = r.err]
                /\ outcome' = [NoOutcome EXCEPT !.op = "invoke", !.cid = thr[t].cid,
                                 !.status = r.err, !.conflict = TRUE]
           ELSE /\ thr' = [thr EXCEPT ![t].pc = "example", ![t].art = Some(r.art)]
                /\ UNCHANGED outcome
    /\ UNCHANGED <<nr_of_fevals, callables, calls>>
    /\ OthersUnchanged

\* monte_carlo.py:131-134  inside do_compile: the example run
T_Example(t, u) ==
    /\ thr[t].pc = "example"
    /\ \E r \in {ExampleRun(Env, callables[thr[t].cid], thr[t].fn, u, nr_of_fevals)} :
        /\ SetEnv(r.env)
        /\ nr_of_fevals' = CompiledCounter(nr_of_fevals, r.count)
        /\ thr' = [thr EXCEPT ![t].pc = "trace3"]
    /\ UNCHANGED <<callables, outcome, calls>>
    /\ OthersUnchanged

\* monte_carlo.py:137-145  inside do_compile: step3 is traced and the
\* artifact returned
T_Trace3(t) ==
    /\ thr[t].pc = "trace3"
    /\ thr' = [thr EXCEPT ![t].pc = "store",
                          ![t].art = Some(TraceStep3(thr[t].art[1], hist.artifacts + 1))]
    /\ hist' = [hist EXCEPT !.artifacts = @ + 1]
    /\ UNCHANGED <<nr_of_fevals, callables, rngG, fnCalls, outcome, calls>>
    /\ OthersUnchanged

\* monte_carlo.py:153  `compiled_func[0] = <what do_compile returned>`
T_Store(t) ==
    /\ thr[t].pc = "store"
    /\ callables' = [callables EXCEPT ![thr[t].cid].slot = thr[t].art,
                                      ![thr[t].cid].builds = @ + 1]
    /\ thr' = [thr EXCEPT ![t].pc = "load"]
    /\ UNCHANGED <<nr_of_fevals, rngG, fnCalls, hist, outcome, calls>>
    /\ OthersUnchanged

\* monte_carlo.py:154  compiled_func[0] is read for the call
T_Load(t) ==
    /\ thr[t].pc = "load"
    /\ thr' = [thr EXCEPT ![t].pc = "call", ![t].callee = callables[thr[t].cid].slot]
    /\ UNCHANGED <<nr_of_fevals, callables, rngG, fnCalls, hist, outcome, calls>>
    /\ OthersUnchanged

\* monte_carlo.py:154, 140-143  the artifact read is called and its result
\* returned
T_Call(t, u) ==
    /\ thr[t].pc = "call"
    /\ \E r \in {traced_integrate(Env, callables[thr[t].cid], thr[t].callee[1],
                                  thr[t].fn, thr[t].rows, u, nr_of_fevals)} :
        /\ SetEnv(r.env)
        /\ nr_of_fevals' = CompiledCounter(nr_of_fevals, r.count)
        /\ thr' = [thr EXCEPT ![t].pc = IF r.err = "ok" THEN "done" ELSE "raised",
                              ![t].status = r.err, ![t].result = r.result]
        /\ outcome' = [NoOutcome EXCEPT !.op = "invoke", !.cid = thr[t].cid,
                         !.n = callables[thr[t].cid].N, !.backend = "torch",
                         !.status = r.err, !.result = r.result,
                         !.built = ~IsNone(thr[t].art)]
    /\ UNCHANGED <<callables, calls>>
    /\ OthersUnchanged

ThreadStart ==
    \E t \in Threads, i \in 1..Len(callables), fn \in Integrands :
        \E rows \in {r \in InvokeRows : Len(r) = callables[i].dim} :
            T_Start(t, i, fn, rows)

ThreadCheck == \E t \in Threads : T_Check(t)

ThreadTrace1 ==
    \E t \in Threads :
        /\ thr[t].pc = "trace1"
        /\ \E u \in USingle(callables[thr[t].cid]) : T_Trace1(t, u)

ThreadExample ==
    \E t \in Threads :
        /\ thr[t].pc = "example"
        /\ \E u \in USingle(callables[thr[t].cid]) : T_Example(t, u)

ThreadTrace3 == \E t \in Threads : T_Trace3(t)

ThreadStore == \E t \in Threads : T_Store(t)

ThreadLoad == \E t \in Threads : T_Load(t)

ThreadCall ==
    \E t \in Threads :
        /\ thr[t].pc = "call"
        /\ \E u \in USingle(callables[thr[t].cid]) : T_Call(t, u)

NextConc ==
    \/ ConcJit
    \/ ThreadStart
    \/ ThreadCheck
    \/ ThreadTrace1
    \/ ThreadExample
    \/ ThreadTrace3
    \/ ThreadStore
    \/ ThreadLoad
    \/ ThreadCall

SpecConc == Init /\ [][NextConc]_vars

\* ------------------------------------ the same call repeated, on fresh instances too
\* One reference call (fn, dim, N, domain, backend, seed) is fixed at the
\* start (det); it is repeated on the direct and on the compiled path, with
\* other calls and the construction of new instances in between.  det.direct
\* and det.jit collect the results the repetitions returned, det.directOn
\* the instance each direct repetition ran on, det.jitBuilt whether each
\* compiled repetition built its artifact first.
MaxDetCalls == 4

DetSeeds == {1, 2}

DetArgs ==
    { <<1, IntN(2), L01, "torch">>,
      <<2, IntN(1), ListDom(<< <<0, 2>>, <<0, 1>> >>), "jax">>,
      <<1, IntN(2), NoneDom, "tensorflow">> }

InitDet ==
    /\ InitObject
    /\ chk = NoCheck
    /\ pipe = NoPipe
    /\ det \in [fn : Integrands, args : DetArgs, seed : {Some(x) : x \in DetSeeds},
                inst : {1}, direct : {{}}, directOn : {<<>>}, jit : {{}},
                jitBuilt : {<<>>}]

\* The generator arguments of the calls made: the reference seed, the other
\* seed, no seed, and the caller's generator.
DetSeedRng ==
    {<<Some(x), None>> : x \in DetSeeds} \cup {<<None, None>>, <<None, Some("g")>>}

\* integrate(...): the reference call itself or another call.
DetIntegrate ==
    /\ calls < MaxDetCalls
    /\ \E fn \in {det.fn, "x0"}, a \in {det.args, <<1, IntN(2), L01, "torch">>} :
        \E sr \in DetSeedRng :
            \E u \in UChoices(sr[1], sr[2]) :
                /\ Integrate(fn, a[1], a[2], a[3], sr[1], sr[2], a[4], u)
                /\ det' = IF fn = det.fn /\ a = det.args /\ sr = <<det.seed, None>>
                                /\ outcome'.status = "ok"
                           THEN [det EXCEPT !.direct = @ \cup {outcome'.result},
                                            !.directOn = Append(@, det.inst)]
                           ELSE det
    /\ UNCHANGED pipe

\* jit_integrate(...) with the arguments of the reference call and either seed.
DetJit ==
    /\ calls < MaxDetCalls
    /\ \E x \in DetSeeds :
        JitIntegrate(det.args[1], det.args[2], det.args[3], Some(x), None, det.args[4])
    /\ UNCHANGED <<det, pipe>>

\* Closure c was requested with the arguments of the reference call.
SameRequest(c) ==
    LET dn == _setup_integration_domain(det.args[1], det.args[3], det.args[4])
    IN /\ c.dim = det.args[1]
       /\ c.N = det.args[2].num
       /\ c.rows = dn.rows
       /\ c.backend = dn.backend
       /\ c.seed = det.seed
       /\ IsNone(c.rng)

\* A closure is invoked on the domain it was requested with.
DetInvoke ==
    /\ calls < MaxDetCalls
    /\ \E i \in 1..Len(callables), fn \in {det.fn, "x0"} :
        \E us \in UTuples(callables[i]) :
            /\ Invoke(i, fn, callables[i].rows, us)
            /\ det' = IF fn = det.fn /\ SameRequest(callables[i])
                            /\ outcome'.status = "ok"
                       THEN [det EXCEPT !.jit = @ \cup {outcome'.result},
                                        !.jitBuilt = Append(@, outcome'.built)]
                       ELSE det
    /\ UNCHANGED pipe

\* MonteCarlo() (monte_carlo.py:12-13, base_integrator.py:25-27): the calls
\* that follow are made on a new instance; the caller's generator and the
\* integrand are the caller's and stay as they are.
DetNewInstance ==
    /\ calls < MaxDetCalls
    /\ calls' = calls + 1
    /\ nr_of_fevals' = 0
    /\ attrs' = [b \in JitBackends |-> None]
    /\ callables' = <<>>
    /\ hist' = [hist EXCEPT !.sumN = 0, !.integrates = 0, !.wrapBuilds = 0,
                            !.artifacts = 0]
    /\ outcome' = [NoOutcome EXCEPT !.op = "construct"]
    /\ det' = [det EXCEPT !.inst = @ + 1]
    /\ UNCHANGED <<rngG, fnCalls, thr, chk, pipe>>

NextDet ==
    \/ DetIntegrate
    \/ DetJit
    \/ DetInvoke
    \/ DetNewInstance

SpecDet == InitDet /\ [][NextDet]_vars

\* ------------------------------------------- the three stages, one by one
\* One run of lines 50-53 of integrate on inputs fixed at the start (pipe),
\* statement by statement, with the output of each stage kept in pipe; and
\* the same call made as a whole.
MaxN == 3
MaxPipeDim == 2

\* Sample counts: 1..MaxN and those of the spec's scenarios (section 8).
PipeNs == 1..MaxN \cup {10, 50}

PipePairs == { <<0, 1>>, <<0, 2>>, <<0, 3>>, <<1, 1>>, <<-1, 1>>, <<1, 3>> }

PipeRows == UNION { [1..k -> PipePairs] : k \in 1..MaxPipeDim }

PipeSeedRng == { <<None, None>>, <<Some(1), None>>, <<Some(2), None>>,
                 <<None, Some("g")>>, <<Some(1), Some("g")>> }

InitPipe ==
    /\ InitObject
    /\ chk = NoCheck
    /\ det = NoRef
    /\ \E fn \in Integrands \cup OtherIntegrands, N \in PipeNs, rows \in PipeRows,
          sr \in PipeSeedRng :
          pipe = [NoPipe EXCEPT !.fn = fn, !.N = N, !.rows = rows,
                                !.seed = sr[1], !.rng = sr[2]]

\* monte_carlo.py:50  sample_points = self.calculate_sample_points(...)
PipeSample ==
    /\ pipe.stage = "init"
    /\ \E u \in UChoices(pipe.seed, pipe.rng) :
        \E s \in {SampleStage(Env, pipe.N, pipe.rows, pipe.seed, pipe.rng, u)} :
            /\ SetEnv(s.env)
            /\ pipe' = [pipe EXCEPT !.stage = IF s.err = "ok" THEN "sampled" ELSE "raised",
                                    !.points = s.points]
    /\ UNCHANGED <<nr_of_fevals, attrs, callables, outcome, calls, thr, chk, det>>

\* monte_carlo.py:52  function_values, self._nr_of_fevals = self.evaluate_integrand(...)
PipeEvaluate ==
    /\ pipe.stage = "sampled"
    /\ \E ev \in {EvalStage(Env, pipe.fn, pipe.points, nr_of_fevals)} :
        /\ SetEnv(ev.env)
        /\ nr_of_fevals' = IntegrateCounter(nr_of_fevals, ev.count)
        /\ pipe' = [pipe EXCEPT !.stage = "evaluated", !.values = ev.values]
    /\ UNCHANGED <<attrs, callables, outcome, calls, thr, chk, det>>

\* monte_carlo.py:53  return self.calculate_result(function_values, integration_domain)
PipeReduce ==
    /\ pipe.stage = "evaluated"
    /\ pipe' = [pipe EXCEPT !.stage = "returned",
                            !.result = calculate_result(pipe.values, pipe.rows)]
    /\ UNCHANGED <<nr_of_fevals, attrs, callables, rngG, fnCalls, outcome, calls, hist,
                   thr, chk, det>>

\* The call integrate(fn, dim, N, integration_domain, seed, rng) as a whole.
PipeIntegrate ==
    /\ pipe.stage = "init"
    /\ calls = 0
    /\ \E u \in UChoices(pipe.seed, pipe.rng) :
        Integrate(pipe.fn, Len(pipe.rows), IntN(pipe.N), ListDom(pipe.rows),
                  pipe.seed, pipe.rng, "torch", u)
    /\ UNCHANGED <<det, pipe>>

NextPipe ==
    \/ PipeSample
    \/ PipeEvaluate
    \/ PipeReduce
    \/ PipeIntegrate

SpecPipe == InitPipe /\ [][NextPipe]_vars

\* ================================================================= claims
Supported == {"torch", "tensorflow", "jax"}

\* The call just made (the step from the unprimed to the primed state).
CallMade == calls' = calls + 1

\* ---------------------------------------------------------------------- C1
\* C1: the evaluation counter is 0 after construction and every successful
\* integrate call adds exactly its N: after the k-th call the counter is
\* N1 + ... + Nk (hist.sumN adds up the N of the successful integrate calls),
\* so it never decreases.
C1_CounterIsSumOfN ==
    /\ nr_of_fevals = hist.sumN
    /\ hist.integrates = 0 => nr_of_fevals = 0

C1_Witness ==
    /\ hist.integrates = 2
    /\ nr_of_fevals = 3
    /\ outcome.op = "integrate" /\ outcome.status = "ok" /\ outcome.n = 2

\* ---------------------------------------------------------------------- C2
\* C2: after the first successful integrate call on an instance, with
\* sample count N, the evaluation counter is exactly N.
C2_CounterAfterFirstIntegrate ==
    (hist.integrates = 1 /\ outcome.op = "integrate" /\ outcome.status = "ok")
        => nr_of_fevals = outcome.n

C2_Witness ==
    /\ calls = 1
    /\ outcome.op = "integrate" /\ outcome.status = "ok" /\ outcome.n = 2
    /\ nr_of_fevals = 2

RECURSIVE BuildsOf(_, _)
BuildsOf(cs, i) == IF i > Len(cs) THEN 0 ELSE cs[i].builds + BuildsOf(cs, i + 1)

C4_NothingBuiltOnError ==
    [][ (CallMade /\ (outcome'.conflict \/ ~outcome'.valid))
          => /\ attrs' = attrs
             /\ hist'.wrapBuilds = hist.wrapBuilds
             /\ hist'.artifacts = hist.artifacts
             /\ \A i \in 1..Len(callables) : callables'[i].slot = callables[i].slot
      ]_vars

\* ---------------------------------------------------------------------- C5
\* C5: _check_inputs raises exactly when dim < 1, or the domain's length is
\* not dim, or N is not a positive int, or some bound pair has not length 2,
\* or some pair has lower > upper; it accepts lower = upper.
IsPositiveInt(N) == N.type = "int" /\ N.den = 1 /\ N.num >= 1

ShouldReject(dim, N, rows) ==
    \/ dim < 1
    \/ Len(rows) # dim
    \/ ~IsPositiveInt(N)
    \/ \E i \in 1..Len(rows) : Len(rows[i]) # 2
    \/ \E i \in 1..Len(rows) : Len(rows[i]) = 2 /\ rows[i][1] > rows[i][2]

C5_ValidationRaisesExactly ==
    (chk.res # "none" /\ chk.dom.kind # "none")
        => ((chk.res # "ok") = ShouldReject(chk.dim, chk.N, chk.dom.rows))

C5_Witness ==
    /\ chk.res = "ok"
    /\ chk.dim = 2
    /\ chk.N = IntN(2)
    /\ chk.dom = ListDom(<< <<1, 1>>, <<0, 1>> >>)

\* ---------------------------------------------------------------------- C6
\* C6: an integrate call with invalid arguments or with both seed and
\* generator fails, and a failing integrate call has drawn no random value,
\* has not invoked the integrand and leaves the counter and the caller's
\* generator as they were.
C6_FailedIntegrateChangesNothing ==
    [][ (CallMade /\ outcome'.op = "integrate"
           /\ (outcome'.status # "ok" \/ outcome'.conflict \/ ~outcome'.valid))
          => /\ outcome'.status # "ok"
             /\ hist'.drawCount = hist.drawCount
             /\ fnCalls' = fnCalls
             /\ nr_of_fevals' = nr_of_fevals
             /\ rngG' = rngG
      ]_vars

C6_Witness ==
    /\ outcome.op = "integrate"
    /\ outcome.status = "ValueError: seed and rng"
    /\ rngG.pos > 0
    /\ nr_of_fevals > 0

\* ---------------------------------------------------------------------- C7
\* C7: jit_integrate whose resolved backend is not torch, tensorflow or jax
\* raises the unsupported-backend error itself: it returns no closure and
\* creates and caches nothing.
C7_UnsupportedBackendFailsAtOnce ==
    [][ (CallMade /\ outcome'.op = "jit_integrate" /\ outcome'.valid
           /\ outcome'.backend \notin Supported)
          => /\ outcome'.status = "ValueError: Compilation not implemented"
             /\ callables' = callables
             /\ attrs' = attrs
             /\ hist'.wrapBuilds = hist.wrapBuilds
             /\ hist'.artifacts = hist.artifacts
      ]_vars

C7_Witness ==
    /\ outcome.op = "jit_integrate"
    /\ outcome.backend = "numpy"
    /\ outcome.status = "ValueError: Compilation not implemented"
    /\ Len(callables) = 2

\* ---------------------------------------------------------------------- C8
\* A thread's step inside do_compile, from statement `from` to statement `to`.
Moved(t, from, to) == thr[t].pc = from /\ thr'[t].pc = to

InBuild(t) ==
    \/ Moved(t, "trace1", "example")
    \/ Moved(t, "example", "trace3")
    \/ Moved(t, "trace3", "store")

\* C8 as stated: building an artifact leaves the evaluation counter, the
\* caller's generator and the integrand's invocation count as they were.
C8_BuildHasNoEffects ==
    [][ \A t \in Threads :
          InBuild(t) => /\ nr_of_fevals' = nr_of_fevals
                        /\ rngG' = rngG
                        /\ fnCalls' = fnCalls
      ]_vars

\* C8 as amended: a build (a duplicate one too) leaves the evaluation counter
\* as it was, but it runs the sample stage twice and invokes the example
\* integrand once: tracing step1 and the example run each draw dim * N
\* values, from the caller's generator when the closure has one, and the
\* example run calls the integrand; tracing step3 changes nothing.
DrawsOfRun(c) == Len(c.rows) * c.N

C8_BuildEffects ==
    [][ \A t \in Threads :
          LET c == callables[thr[t].cid]
              adv == IF IsNone(c.rng) THEN 0 ELSE DrawsOfRun(c)
          IN /\ Moved(t, "trace1", "example")
                  => /\ nr_of_fevals' = nr_of_fevals
                     /\ fnCalls' = fnCalls
                     /\ hist'.drawCount = hist.drawCount + DrawsOfRun(c)
                     /\ rngG' = [rngG EXCEPT !.pos = @ + adv]
             /\ Moved(t, "example", "trace3")
                  => /\ nr_of_fevals' = nr_of_fevals
                     /\ fnCalls' = fnCalls + 1
                     /\ hist'.drawCount = hist.drawCount + DrawsOfRun(c)
                     /\ rngG' = [rngG EXCEPT !.pos = @ + adv]
             /\ Moved(t, "trace3", "store")
                  => /\ nr_of_fevals' = nr_of_fevals
                     /\ fnCalls' = fnCalls
                     /\ hist'.drawCount = hist.drawCount
                     /\ rngG' = rngG
      ]_vars

C8_Witness ==
    \E i \in 1..Len(callables) :
        /\ callables[i].builds = 2
        /\ ~IsNone(callables[i].rng)
        /\ hist.artifacts = 2
        /\ nr_of_fevals = 0
        /\ fnCalls >= 2
        /\ rngG.pos >= 4

\* ---------------------------------------------------------------------- C9
Complete(art) == art.step1 /\ art.step3

\* C9: with two threads in the same traced closure, in every interleaving
\* the slot holds nothing or a completely built artifact, the artifact a
\* thread reads from the slot and calls is completely built, and when every
\* thread has returned from that closure its slot holds one of the
\* artifacts built.
C9_RaceIsHarmless ==
    /\ \A i \in 1..Len(callables) :
          ~IsNone(callables[i].slot) =>
              /\ Complete(callables[i].slot[1])
              /\ callables[i].slot[1].id \in 1..hist.artifacts
    /\ \A t \in Threads :
          /\ thr[t].pc \in {"call", "done"} =>
                (~IsNone(thr[t].callee) /\ Complete(thr[t].callee[1]))
          /\ thr[t].pc = "done" => thr[t].status = "ok"
    /\ \A i \in 1..Len(callables) :
          (\A t \in Threads : thr[t].pc = "done" /\ thr[t].cid = i)
              => /\ ~IsNone(callables[i].slot)
                 /\ callables[i].slot[1].id \in 1..hist.artifacts

C9_Witness ==
    \E i \in 1..Len(callables) :
        /\ \A t \in Threads :
              thr[t].pc = "done" /\ thr[t].cid = i /\ ~IsNone(thr[t].art)
        /\ callables[i].builds = 2
        /\ thr[1].callee # thr[2].callee

\* --------------------------------------------------------------------- C10
\* C10: the caller's generator is never reset or reseeded: the draws made on
\* it (hist.log) are consecutive segments of its stream, each sampling run
\* makes exactly dim draws of N values on it, for the dimensions in
\* ascending order, and the generator stands at the end of the last draw.
C10_CallerGeneratorStream ==
    LET log == hist.log
        n == Len(log)
        First(k) == k = 1 \/ log[k - 1].s # log[k].s
        Last(k) == k = n \/ log[k + 1].s # log[k].s
    IN /\ rngG.seed = CallerGen0.seed
       /\ rngG.pos = IF n = 0 THEN 0 ELSE log[n].start + log[n].n
       /\ \A k \in 1..n :
            /\ log[k].start = IF k = 1 THEN 0 ELSE log[k - 1].start + log[k - 1].n
            /\ log[k].n = log[k].N
            /\ log[k].d = IF First(k) THEN 1 ELSE log[k - 1].d + 1
            /\ Last(k) => log[k].d = log[k].dim

C10_Witness ==
    /\ hist.integrates = 2
    /\ Len(hist.log) = 4
    /\ hist.log[1].dim = 2 /\ hist.log[3].dim = 2
    /\ hist.log[3].start = 4
    /\ rngG.pos = 8

\* --------------------------------------------------------------------- C11
\* C11: with seed, dim, N, domain and fn fixed and no generator passed, all
\* integrate calls return the same result, on one instance or on several and
\* whatever calls were made in between: the results the repetitions of the
\* reference call have returned are one value.
C11_SeededIntegrateIsDeterministic ==
    /\ Cardinality(det.direct) <= 1
    /\ Len(det.directOn) >= 1 => Cardinality(det.direct) = 1

C11_Witness ==
    /\ Len(det.directOn) = 2
    /\ det.directOn[1] # det.directOn[2]
    /\ det.fn = "x0"
    /\ rngG.pos > 0
    /\ \E r \in det.direct : r.num # 0

C13_TracingIsLazy ==
    [][ /\ (CallMade /\ outcome'.op = "jit_integrate")
             => /\ hist'.samplings = hist.samplings
                /\ hist'.drawCount = hist.drawCount
                /\ fnCalls' = fnCalls
                /\ hist'.artifacts = hist.artifacts
                /\ \A j \in 1..Len(callables) : callables'[j] = callables[j]
                /\ (outcome'.status = "ok" /\ outcome'.backend = "torch")
                      => /\ Len(callables') = Len(callables) + 1
                         /\ callables'[Len(callables')].kind = "lazy"
                         /\ IsNone(callables'[Len(callables')].slot)
        /\ (CallMade /\ outcome'.op = "invoke" /\ outcome'.backend = "torch")
             => LET i == outcome'.cid
                IN /\ \A j \in 1..Len(callables) :
                         j # i => callables'[j].slot = callables[j].slot
                   /\ IF ~IsNone(callables[i].slot)
                      THEN /\ callables'[i].slot = callables[i].slot
                           /\ hist'.artifacts = hist.artifacts
                           /\ ~outcome'.built
                           /\ outcome'.status = "ok"
                           /\ hist'.samplings = hist.samplings + 1
                           /\ fnCalls' = fnCalls + 1
                      ELSE IF outcome'.status = "ok"
                      THEN /\ ~IsNone(callables'[i].slot)
                           /\ Complete(callables'[i].slot[1])
                           /\ hist'.artifacts = hist.artifacts + 1
                           /\ outcome'.built
                      ELSE /\ IsNone(callables'[i].slot)
                           /\ hist'.artifacts = hist.artifacts
      ]_vars

C13_Witness ==
    /\ outcome.op = "invoke" /\ outcome.backend = "torch" /\ outcome.status = "ok"
    /\ ~outcome.built
    /\ callables[outcome.cid].invocations = 3
    /\ callables[outcome.cid].builds = 1
    /\ hist.samplings = 5

\* --------------------------------------------------------------------- C14
\* The backends whose wrapper pair is stored on the instance.
WrappedBackends == {b \in JitBackends : ~IsNone(attrs[b])}

\* C14: for tensorflow and jax the pair of stage wrappers is constructed at
\* most once per instance and backend: the wrappers built are one pair for
\* each backend jit_integrate was asked for, that pair stays on the
\* instance, and every closure of that backend uses it.
C14_WrappersBuiltOncePerBackend ==
    /\ hist.wrapBuilds = Cardinality(WrappedBackends)
    /\ \A i \in 1..Len(callables) :
          callables[i].kind = "compiled"
              => /\ callables[i].backend \in WrappedBackends
                 /\ callables[i].wrap = attrs[callables[i].backend]
    /\ \A b \in JitBackends :
          (\E i \in 1..Len(callables) : callables[i].backend = b) = (b \in WrappedBackends)

C14_Witness ==
    /\ Len(callables) = 3
    /\ \A i \in 1..3 : callables[i].backend = "jax"
    /\ callables[1].invocations = 1
    /\ hist.wrapBuilds = 1
    /\ callables[3].wrap = callables[1].wrap

\* --------------------------------------------------------------------- C15
\* C15 as stated: when the integrand returns a sequence whose length is not
\* N, integrate does not return: the reducer raises.  So a call with such an
\* integrand never ends with status ok, and the reducer has returned only on
\* N values.
C15_WrongLengthFailsInReducer ==
    /\ (outcome.op = "integrate" /\ pipe.fn \in {"short", "long"})
          => outcome.status # "ok"
    /\ pipe.stage = "returned" => Len(pipe.values) = pipe.N

\* --------------------------------------------------------------------- C16
RECURSIVE VolumeOf(_)
VolumeOf(rows) ==
    IF rows = <<>> THEN 1 ELSE (Head(rows)[2] - Head(rows)[1]) * VolumeOf(Tail(rows))

RECURSIVE TotalOf(_)
TotalOf(values) == IF values = <<>> THEN 0 ELSE Head(values) + TotalOf(Tail(values))

\* The value of the constant integrand fn.
ConstantOf(fn) == IF fn = "one" THEN 1 ELSE 2

Returned == outcome.op = "integrate" /\ outcome.status = "ok"

\* C16: the reducer returns volume * sum(values) / N, volume being the
\* product of (upper - lower) over the dimensions (the values are in units
\* of 1/Q, the result is the fraction num/den); so integrate of a constant c
\* returns c * volume for every N and every seed or generator: 1 for c = 1
\* on [[0,1]] with N = 10, and 12 for c = 2 on [[0,2],[0,3]] with N = 50.
C16_ReducerFormula ==
    /\ (pipe.stage = "returned" /\ Len(pipe.values) = pipe.N)
          => /\ pipe.result.den > 0
             /\ pipe.result.num * pipe.N * Q
                   = pipe.result.den * VolumeOf(pipe.rows) * TotalOf(pipe.values)
    /\ (pipe.stage = "returned" /\ pipe.fn \in {"one", "two"})
          => pipe.result = [num |-> ConstantOf(pipe.fn) * VolumeOf(pipe.rows), den |-> 1]
    /\ (Returned /\ pipe.fn \in {"one", "two"})
          => outcome.result = [num |-> ConstantOf(pipe.fn) * VolumeOf(pipe.rows), den |-> 1]
    /\ (Returned /\ pipe.fn = "one" /\ pipe.N = 10 /\ pipe.rows = << <<0, 1>> >>)
          => outcome.result = [num |-> 1, den |-> 1]
    /\ (Returned /\ pipe.fn = "two" /\ pipe.N = 50
            /\ pipe.rows = << <<0, 2>>, <<0, 3>> >>)
          => outcome.result = [num |-> 12, den |-> 1]

C16_Witness ==
    /\ Returned
    /\ pipe.fn = "two" /\ pipe.N = 50 /\ pipe.rows = << <<0, 2>>, <<0, 3>> >>
    /\ IsNone(pipe.seed) /\ IsNone(pipe.rng)
    /\ outcome.result = [num |-> 12, den |-> 1]
    /\ nr_of_fevals = 50

\* --------------------------------------------------------------------- C17
\* C17 as stated: every integrate call and every invocation of a closure of
\* jit_integrate that returns, the first invocation included, has invoked
\* the integrand exactly once.
C17_IntegrandInvokedOnce ==
    [][ (CallMade /\ outcome'.op \in {"integrate", "invoke"} /\ outcome'.status = "ok")
          => fnCalls' = fnCalls + 1
      ]_vars

\* C17 as amended: the integrand is invoked on the whole batch, never once
\* per point: once by an integrate call and by an invocation that finds the
\* artifact or the wrappers built, twice by an invocation of a torch closure
\* that builds the artifact (once as the example integrand, once for the
\* result), and not at all by a call that raises or by jit_integrate.
C17_IntegrandInvocations ==
    [][ CallMade
          => fnCalls' = fnCalls +
                (IF outcome'.op \notin {"integrate", "invoke"} \/ outcome'.status # "ok"
                 THEN 0
                 ELSE IF outcome'.built THEN 2 ELSE 1)
      ]_vars

C17_Witness ==
    /\ outcome.op = "invoke" /\ outcome.status = "ok" /\ outcome.built
    /\ outcome.n = 2
    /\ calls = 2
    /\ fnCalls = 2

\* --------------------------------------------------------------------- C18
\* C18: the table the sample stage returns has N rows of dim columns, every
\* value of column d lies within [lower_d, upper_d] (in units of 1/Q), and
\* where lower_d = upper_d every value of the column is lower_d.
C18_SamplePointsInDomain ==
    pipe.stage \in {"sampled", "evaluated", "returned"}
        => /\ Len(pipe.points) = pipe.N
           /\ \A i \in 1..Len(pipe.points) :
                 /\ Len(pipe.points[i]) = Len(pipe.rows)
                 /\ \A d \in 1..Len(pipe.rows) :
                       /\ pipe.rows[d][1] * Q <= pipe.points[i][d]
                       /\ pipe.points[i][d] <= pipe.rows[d][2] * Q
                       /\ pipe.rows[d][1] = pipe.rows[d][2]
                             => pipe.points[i][d] = pipe.rows[d][1] * Q

C18_Witness ==
    /\ pipe.stage = "sampled"
    /\ pipe.N = 3
    /\ pipe.rows = << <<1, 1>>, <<-1, 1>> >>
    /\ \E i \in 1..3 : pipe.points[i] = <<Q, -Q>>
    /\ \E i \in 1..3 : pipe.points[i][2] > -Q

\* --------------------------------------------------------------------- C19
\* C19: invoking a closure of jit_integrate never changes the evaluation
\* counter, whether the invocation builds the artifact first, finds it
\* built, or raises; requesting the closure does not change it either.
C19_CompiledCallsKeepCounter ==
    [][ (CallMade /\ outcome'.op \in {"invoke", "jit_integrate"})
          => nr_of_fevals' = nr_of_fevals
      ]_vars

C19_Witness ==
    /\ outcome.op = "invoke" /\ outcome.status = "ok" /\ outcome.built
    /\ calls = 3
    /\ fnCalls = 3
    /\ nr_of_fevals = 2
    /\ hist.integrates = 1

====
